---- MODULE Spec2Model ----
(***************************************************************************)
(* Upload orchestration of event-stream-api: the storage client            *)
(* (S3Service), the video processing client (MuxService) and the upload    *)
(* orchestrator (UploadService), in its current form (upload.service.ts)   *)
(* and in its earlier batched form.                                        *)
(*                                                                         *)
(* One request is followed from the call to its return.  Every action is   *)
(* one turn of the Node event loop: either the call itself, run up to the  *)
(* point where every promise chain is parked on an outstanding request to  *)
(* an external service, or the completion of one outstanding request       *)
(* together with all the continuation code that this completion resumes.   *)
(*                                                                         *)
(* An optional value (a `?:` field, `undefined`) is a sequence of length   *)
(* 0 or 1.  Sequences are indexed from 1; JavaScript index k is k + 1.     *)
(***************************************************************************)
EXTENDS Integers, Sequences, FiniteSets, Bags, TLC

VARIABLES
    op,          \* the UploadService method of the request, "none" before it
    files,       \* the request's files (Express.Multer.File[])
    titles,      \* the optional titles list of a batch request
    title,       \* the optional title of a single video request
    pc,          \* where the request is: idle, awaitS3, awaitMux, done
    s3,          \* per file: the state of its S3Service.uploadFile promise
    mux,         \* per file: the state of its MuxService.createAsset promise
    del,         \* per file: the state of its S3Service.deleteFile promise
    results,     \* per file: the UploadResult of its callback, once it has one
    ret,         \* the outcome of the request: returned value or thrown error
    bucket,      \* the keys of the objects the bucket holds
    s3Results,   \* the array uploadMultipleFiles resolved to, once it has
    settleOrder, \* file indices in the order in which the promises of the
                 \* Promise.all being awaited settled
    createCalls, \* the createAsset calls issued, in order
    deleteCalls, \* the bag of the keys deleteFile was called with
    log,         \* the messages written with logger.error
    loopI,       \* batched uploadMultipleVideos: the batch loop's variable i
    loopJ,       \* batched uploadMultipleVideos: the result loop's variable j
    faults,      \* batched uploadMultipleVideos: failed external calls so far
    body,        \* UploadController: the title and titles fields of the
                 \* request body and the id of the route, as the client
                 \* sent them
    filesArg     \* the files argument as the method was handed it: absent
                 \* (undefined) or a list

vars == <<op, files, titles, title, pc, s3, mux, del, results, ret, bucket,
          s3Results, settleOrder, createCalls, deleteCalls, log, loopI, loopJ,
          faults, body, filesArg>>

\* What the current UploadService never writes.
batchVars == <<loopI, loopJ, faults>>

(***************************************************************************)
(* Bounds of the model.                                                    *)
(***************************************************************************)
MaxFiles == 3

\* The largest file count of a request to the batched uploadMultipleVideos.
MaxBatchFiles == 11

\* The largest file count of a request to the UploadController.
MaxControllerFiles == 2

\* The longest title, in characters, a client sends to the UploadController.
MaxTitleLen == 3

\* The most external calls that fail during one request to the batched
\* uploadMultipleVideos.
MaxFaults == 2

(***************************************************************************)
(* Values.                                                                 *)
(***************************************************************************)
None == <<>>

Some(x) == <<x>>

IsSome(o) == Len(o) = 1

Val(o) == o[1]

\* JavaScript `a || b` on an optional string: b when a is undefined or "".
OrElse(o, b) == IF IsSome(o) /\ Val(o) # "" THEN Val(o) ELSE b

\* JavaScript `a || b` on an optional number: b when a is undefined or 0.
OrElseNum(o, b) == IF IsSome(o) /\ Val(o) # 0 THEN Val(o) ELSE b

\* JavaScript `arr?.[k]`, k counted from 1, on an optional array.
At(arr, k) == IF IsSome(arr) /\ k \in DOMAIN Val(arr) THEN Some(Val(arr)[k]) ELSE None

Range(s) == {s[k] : k \in DOMAIN s}

(***************************************************************************)
(* Inputs: the files, titles and external responses a request is run on.   *)
(***************************************************************************)
MB == 1024 * 1024

FilePool ==
    { [originalname |-> "clip.mp4", mimetype |-> "video/mp4", size |-> 50],
      [originalname |-> "big.mp4", mimetype |-> "video/mp4", size |-> 100 * MB + 1],
      [originalname |-> "pic.png", mimetype |-> "image/png", size |-> 50],
      [originalname |-> "big.png", mimetype |-> "image/png", size |-> 6 * MB] }

TitlePool == {"", "My Video"}

SeqsUpTo(S, n) == UNION {[1..m -> S] : m \in 0..n}

FileLists == SeqsUpTo(FilePool, MaxFiles)

\* An absent titles list, or a list that is shorter than, as long as or
\* longer than the file list, with empty titles at its odd or even places.
TitleLists(n) ==
    {None} \cup
    { Some([k \in 1..m |-> IF k % 2 = p THEN "" ELSE "My Video"]) :
        m \in {n - 1, n, n + 1} \cap Nat, p \in {0, 1} }

\* What the bucket answers to a PutObjectCommand.
PutOutcomes == {[ok |-> TRUE], [ok |-> FALSE, message |-> "put refused"]}

\* What the bucket answers to a HeadObjectCommand for a stored file.
HeadOutcomes(file) ==
    { [ok |-> TRUE, ContentType |-> Some(file.mimetype), ContentLength |-> Some(file.size)],
      [ok |-> FALSE, message |-> "head refused"] }

\* What the bucket answers to a DeleteObjectCommand.
DeleteOutcomes == {[ok |-> TRUE], [ok |-> FALSE, message |-> "delete refused"]}

MuxStatuses == {"preparing"}

\* What Mux answers to video.assets.create for the k-th file of a request.
MuxOutcomes(k) ==
    { [ok |-> TRUE,
       asset |-> [id |-> "asset-" \o ToString(k), status |-> st, duration |-> None,
                  aspect_ratio |-> None, playback_ids |-> <<>>,
                  created_at |-> "t0", upload_id |-> None]] : st \in MuxStatuses }
    \cup {[ok |-> FALSE, message |-> "mux refused"]}

(***************************************************************************)
(* S3Service (src/common/services/s3/s3.service.ts).                       *)
(***************************************************************************)
ALLOWED_VIDEO_TYPES ==
    <<"video/mp4", "video/quicktime", "video/x-msvideo", "video/x-matroska", "video/webm">>

ALLOWED_IMAGE_TYPES == <<"image/jpeg", "image/png", "image/gif", "image/webp">>

RECURSIVE Join(_, _)
\* Array.prototype.join
Join(arr, sep) ==
    IF Len(arr) = 0 THEN ""
    ELSE IF Len(arr) = 1 THEN arr[1]
    ELSE arr[1] \o sep \o Join(Tail(arr), sep)

AllowedTypes(fileType) ==
    IF fileType = "video" THEN ALLOWED_VIDEO_TYPES ELSE ALLOWED_IMAGE_TYPES

MaxSizeOf(fileType) == IF fileType = "video" THEN 100 * 1024 * 1024 ELSE 5 * 1024 * 1024

\* Mutant of ValidateFile: the size is not checked.
ValidateFileTypeOnly(file, fileType) ==
    IF file.mimetype = "" \/ file.mimetype \notin Range(AllowedTypes(fileType))
    THEN Some("Invalid " \o fileType \o " type. Allowed types: "
              \o Join(AllowedTypes(fileType), ", "))
    ELSE None

\* Mutant of ValidateFile: a file of exactly the maximum size is refused.
ValidateFileSizeInclusive(file, fileType) ==
    IF file.mimetype = "" \/ file.mimetype \notin Range(AllowedTypes(fileType))
    THEN Some("Invalid " \o fileType \o " type. Allowed types: "
              \o Join(AllowedTypes(fileType), ", "))
    ELSE IF file.size >= MaxSizeOf(fileType)
    THEN Some("File size exceeds limit. Maximum size for " \o fileType \o " is "
              \o ToString(MaxSizeOf(fileType) \div (1024 * 1024)) \o "MB")
    ELSE None

\* validateFile: None when the file passes, the exception's message otherwise.
ValidateFile(file, fileType) ==
    IF file.mimetype = "" \/ file.mimetype \notin Range(AllowedTypes(fileType))
    THEN Some("Invalid " \o fileType \o " type. Allowed types: "
              \o Join(AllowedTypes(fileType), ", "))
    ELSE IF file.size > MaxSizeOf(fileType)
    THEN Some("File size exceeds limit. Maximum size for " \o fileType \o " is "
              \o ToString(MaxSizeOf(fileType) \div (1024 * 1024)) \o "MB")
    ELSE None

\* The default of uploadFile's folder parameter.
FolderOf(fileType) == IF fileType = "video" THEN "videos" ELSE "images"

\* `${folder}/${randomUUID()}-${originalname}`; the uuid is a fresh number.
FileKey(folder, uuid, originalname) ==
    folder \o "/" \o ToString(uuid) \o "-" \o originalname

FileUrl(key) == "https://bucket.s3.region.amazonaws.com/" \o key

\* uploadFile up to its first await: validation, then the put is issued.
UploadFileStart(file, fileType, uuid) ==
    LET err == ValidateFile(file, fileType) IN
    IF IsSome(err)
    THEN [status |-> "rejected", key |-> None, value |-> None, reason |-> err]
    ELSE [status |-> "put",
          key |-> Some(FileKey(FolderOf(fileType), uuid, file.originalname)),
          value |-> None, reason |-> None]

\* uploadFile when its PutObjectCommand settles: the head is issued, or the
\* catch wraps the error.
UploadFileAfterPut(item, r) ==
    IF r.ok
    THEN [item EXCEPT !.status = "head"]
    ELSE [item EXCEPT !.status = "rejected",
                      !.reason = Some("Failed to upload file to S3: " \o r.message)]

\* getFileMetadata: the metadata of a head response, or its exception's message.
GetFileMetadata(r) ==
    IF r.ok
    THEN [ok |-> TRUE,
          contentType |-> OrElse(r.ContentType, "application/octet-stream"),
          size |-> OrElseNum(r.ContentLength, 0)]
    ELSE [ok |-> FALSE, message |-> "Failed to get file metadata: " \o r.message]

\* uploadFile when its HeadObjectCommand settles.
UploadFileAfterHead(item, r) ==
    LET md == GetFileMetadata(r) IN
    IF md.ok
    THEN [item EXCEPT !.status = "fulfilled",
                      !.value = Some([url |-> FileUrl(Val(item.key)), key |-> Val(item.key),
                                      contentType |-> md.contentType, size |-> md.size])]
    ELSE [item EXCEPT !.status = "rejected",
                      !.reason = Some("Failed to upload file to S3: " \o md.message)]

\* What logger.error writes when a put or a head settles.
UploadFileLog(item, r) ==
    IF r.ok THEN {}
    ELSE IF item.status = "head"
    THEN {"Failed to get file metadata: " \o r.message,
          "Failed to upload file to S3: Failed to get file metadata: " \o r.message}
    ELSE {"Failed to upload file to S3: " \o r.message}

S3Settled(item) == item.status \in {"fulfilled", "rejected"}

\* HttpStatus.BAD_REQUEST, the status FileUploadException's constructor passes on.
BAD_REQUEST == 400

FileUploadException(message) ==
    [name |-> "FileUploadException", message |-> message, status |-> BAD_REQUEST]

\* What a rejected uploadFile promise is rejected with: validateFile and the
\* catch block both throw a FileUploadException.
UploadFileRejection(item) == FileUploadException(Val(item.reason))

\* The .then / .catch of uploadMultipleFiles on one settled uploadFile promise.
SettledEntry(file, item) ==
    IF item.status = "fulfilled"
    THEN [status |-> "fulfilled", value |-> item.value, reason |-> None,
          fileName |-> file.originalname]
    ELSE [status |-> "rejected", value |-> None, reason |-> item.reason,
          fileName |-> file.originalname]

\* Mutant of UploadMultipleFilesResult: the entries in the order in which the
\* promises settled.
UploadMultipleFilesResultInSettleOrder(fs, items, order) ==
    [k \in 1..Len(order) |-> SettledEntry(fs[order[k]], items[order[k]])]

\* uploadMultipleFiles: Promise.all over the mapped promises, whose result is
\* indexed by position whatever the order in which they settled.
UploadMultipleFilesResult(fs, items, order) ==
    [k \in 1..Len(fs) |-> SettledEntry(fs[k], items[k])]

\* deleteFile when its DeleteObjectCommand settles.
DeleteFileSettle(d, r) ==
    IF r.ok
    THEN [d EXCEPT !.status = "fulfilled"]
    ELSE [d EXCEPT !.status = "rejected",
                   !.reason = Some("Failed to delete file from S3: " \o r.message)]

(***************************************************************************)
(* MuxService (src/common/services/mux/mux.service.ts).                    *)
(***************************************************************************)
\* The VideoMetadata createAsset returns for a created asset.
VideoMetadataOf(asset, videoUrl, ttl) ==
    [id |-> asset.id, title |-> ttl, status |-> asset.status,
     duration |-> asset.duration, aspectRatio |-> asset.aspect_ratio,
     playbackId |-> IF Len(asset.playback_ids) > 0 THEN Some(asset.playback_ids[1].id) ELSE None,
     createdAt |-> asset.created_at, uploadId |-> asset.upload_id, s3Url |-> videoUrl]

\* createAsset when video.assets.create settles: the metadata, or a fixed error.
CreateAssetSettle(call, r) ==
    IF r.ok
    THEN [call EXCEPT !.status = "fulfilled",
                      !.value = Some(VideoMetadataOf(r.asset, Val(call.url), Val(call.title)))]
    ELSE [call EXCEPT !.status = "rejected",
                      !.reason = Some("Failed to process video with Mux")]

CreateAssetLog(r) == IF r.ok THEN {} ELSE {"Failed to create Mux asset: " \o r.message}

(***************************************************************************)
(* UploadService, current (src/modules/upload/upload.service.ts).          *)
(***************************************************************************)
Return(v) == [kind |-> "return", value |-> v]

Throw(m) == [kind |-> "throw", error |-> m]

IdleCall == [status |-> "idle", url |-> None, title |-> None, value |-> None, reason |-> None]

IdleDelete == [status |-> "idle", key |-> None, reason |-> None]

\* An UploadResult of status failed.
FailedResult(message, fileName) ==
    [status |-> "failed", data |-> None, error |-> message, fileName |-> fileName]

\* The UploadResult of a video: { ...muxResult, url, contentType, size }.
VideoSuccess(muxResult, value, fileName) ==
    [status |-> "success",
     data |-> Some([id |-> muxResult.id, title |-> muxResult.title,
                    status |-> muxResult.status, duration |-> muxResult.duration,
                    aspectRatio |-> muxResult.aspectRatio,
                    playbackId |-> muxResult.playbackId,
                    createdAt |-> muxResult.createdAt, uploadId |-> muxResult.uploadId,
                    s3Url |-> muxResult.s3Url, url |-> value.url,
                    contentType |-> value.contentType, size |-> value.size]),
     error |-> None, fileName |-> fileName]

\* Mutant of ImageSuccess: the data is left out.
ImageSuccessWithoutData(value, fileName) ==
    [status |-> "success", data |-> None, error |-> None, fileName |-> fileName]

\* The UploadResult of an image.
ImageSuccess(value, fileName) ==
    [status |-> "success",
     data |-> Some([url |-> value.url, s3Url |-> value.url,
                    contentType |-> value.contentType, size |-> value.size,
                    metadata |-> None]),
     error |-> None, fileName |-> fileName]

\* uploadVideo: `title || file.originalname`.
SingleTitle(t, file) == OrElse(t, file.originalname)

\* Mutant of UploadVideoCatch: the catch block throws, as the earlier
\* uploadVideo did.
UploadVideoCatchThrows(message, file) ==
    Throw("Failed to process video upload: " \o message)

\* uploadVideo's catch block.
UploadVideoCatch(message, file) ==
    Return(FailedResult(Some(message), file.originalname))

\* uploadImage's catch block.
UploadImageCatch(message, file) ==
    Return(FailedResult(Some(message), file.originalname))

\* Mutant of ResolveTitle: an empty title is kept (`??` in place of `||`).
ResolveTitleKeepsEmpty(ts, k, file) ==
    IF IsSome(At(ts, k)) THEN Val(At(ts, k)) ELSE file.originalname

\* uploadMultipleVideos: `titles?.[index] || files[index].originalname`.
ResolveTitle(ts, k, file) == OrElse(At(ts, k), file.originalname)

\* uploadMultipleVideos: whether the callback of an entry calls createAsset.
ShouldProcess(entry) == entry.status = "fulfilled" /\ IsSome(entry.value)

\* Mutant of ResultRejected: the storage failure's reason is dropped.
ResultRejectedWithoutReason(entry) == FailedResult(None, entry.fileName)

\* uploadMultipleVideos: resultRejected.
ResultRejected(entry) == FailedResult(entry.reason, entry.fileName)

\* uploadMultipleVideos: resultSuccess.
ResultSuccess(entry, muxResult) == VideoSuccess(muxResult, Val(entry.value), entry.fileName)

\* Mutant of CleanupKey: deleteFile is handed the object's URL.
CleanupKeyIsUrl(entry) == Val(entry.value).url

\* uploadMultipleVideos: the key handed to deleteFile in the callback's catch.
CleanupKey(entry) == Val(entry.value).key

\* Mutant of DeleteCaught: deleteFile is awaited without a .catch.
DeleteNotCaught(d) == FALSE

\* uploadMultipleVideos: whether the .catch on deleteFile absorbs its rejection.
DeleteCaught(d) == TRUE

\* Mutant of DeleteAwaited: deleteFile is started and not awaited.
DeleteNotAwaited(key) == FALSE

\* uploadMultipleVideos: whether the callback waits for the deleteFile call it
\* issued (`await this.s3Service.deleteFile(...).catch(...)`).
DeleteAwaited(key) == TRUE

\* Mutant of ResultFailed: the message of the deleteFile error (`err`) is
\* reported when there is one.
ResultFailedFromDelete(entry, error, err) ==
    FailedResult(Some("Mux processing failed: " \o OrElse(err, error)), entry.fileName)

\* uploadMultipleVideos: resultFailed, built from the createAsset error
\* (`error`), not from the deleteFile error (`err`).
ResultFailed(entry, error, err) ==
    FailedResult(Some("Mux processing failed: " \o error), entry.fileName)

\* Mutant of VideoResults: the results in the order in which the callbacks
\* returned.
VideoResultsInSettleOrder(res, order) == [k \in DOMAIN res |-> Val(res[order[k]])]

\* uploadMultipleVideos: Promise.all over the callbacks, indexed by position.
VideoResults(res, order) == [k \in DOMAIN res |-> Val(res[k])]

\* uploadMultipleImages: results.map.
ImageResults(entries) ==
    [k \in DOMAIN entries |->
        IF entries[k].status = "fulfilled" /\ IsSome(entries[k].value)
        THEN ImageSuccess(Val(entries[k].value), entries[k].fileName)
        ELSE FailedResult(entries[k].reason, entries[k].fileName)]

SingleOps == {"uploadVideo", "uploadImage"}

BatchOps == {"uploadMultipleVideos", "uploadMultipleImages"}

FileTypeOf(o) == IF o \in {"uploadVideo", "uploadMultipleVideos"} THEN "video" ELSE "image"

Indices(fs) == [k \in 1..Len(fs) |-> k]

\* The uploadFile promises of a call on fs, each run up to its first await,
\* when `made` keys were generated before.
StartStorage(fs, fileType, made) ==
    [k \in 1..Len(fs) |-> UploadFileStart(fs[k], fileType, made + k)]

NoCalls(n) == [k \in 1..n |-> IdleCall]

NoDeletes(n) == [k \in 1..n |-> IdleDelete]

NoResults(n) == [k \in 1..n |-> None]

IssuedCall(url, ttl) ==
    [status |-> "inflight", url |-> Some(url), title |-> Some(ttl), value |-> None,
     reason |-> None]

\* Mutant of StoragePending: the await ends with the first upload that
\* settles.
StoragePendingUntilFirst(items) == \A k \in DOMAIN items : ~S3Settled(items[k])

\* Whether the Promise.all over the uploadFile promises, which never
\* reject once mapped by then/catch, is still pending.
StoragePending(items) == \E k \in DOMAIN items : ~S3Settled(items[k])

\* What the code after `await uploadFile` / `await uploadMultipleFiles` does
\* once every uploadFile promise of the call has settled, as the new values
\* of the variables it writes; before that the call stays parked.
AfterStorage(o, fs, ts, t, items, order) ==
    LET n == Len(fs)
        entries == UploadMultipleFilesResult(fs, items, order)
        parked == [pc |-> "awaitS3", mux |-> NoCalls(n), results |-> NoResults(n),
                   ret |-> None, createCalls |-> <<>>, s3Results |-> <<>>,
                   settleOrder |-> order, logs |-> {}]
        doneWith(r, lg) == [parked EXCEPT !.pc = "done", !.ret = Some(r), !.logs = lg]
    IN
    IF StoragePending(items) THEN parked
    ELSE IF o = "uploadVideo" THEN
        IF items[1].status = "fulfilled"
        THEN LET url == Val(items[1].value).url
                 ttl == SingleTitle(t, fs[1])
             IN [parked EXCEPT !.pc = "awaitMux",
                               !.mux = <<IssuedCall(url, ttl)>>,
                               !.createCalls = <<[index |-> 1, url |-> url, title |-> ttl]>>]
        ELSE doneWith(UploadVideoCatch(Val(items[1].reason), fs[1]),
                      {"Failed to upload video: " \o Val(items[1].reason)})
    ELSE IF o = "uploadImage" THEN
        IF items[1].status = "fulfilled"
        THEN doneWith(Return(ImageSuccess(Val(items[1].value), fs[1].originalname)), {})
        ELSE doneWith(UploadImageCatch(Val(items[1].reason), fs[1]),
                      {"Failed to upload image: " \o Val(items[1].reason)})
    ELSE IF o = "uploadMultipleImages" THEN
        [doneWith(Return(ImageResults(entries)), {})
            EXCEPT !.results = [k \in 1..n |-> Some(ImageResults(entries)[k])],
                   !.s3Results = entries]
    ELSE
        LET go(k) == ShouldProcess(entries[k])
            urlOf(k) == Val(entries[k].value).url
            calls == [k \in 1..n |->
                        IF go(k) THEN IssuedCall(urlOf(k), ResolveTitle(ts, k, fs[k]))
                        ELSE IdleCall]
            res == [k \in 1..n |-> IF go(k) THEN None ELSE Some(ResultRejected(entries[k]))]
            issued == SelectSeq(Indices(fs), LAMBDA k : go(k))
            rejected == SelectSeq(Indices(fs), LAMBDA k : ~go(k))
            next == [parked EXCEPT
                        !.pc = "awaitMux", !.mux = calls, !.results = res,
                        !.s3Results = entries, !.settleOrder = rejected,
                        !.createCalls =
                            [j \in 1..Len(issued) |->
                                [index |-> issued[j], url |-> urlOf(issued[j]),
                                 title |-> ResolveTitle(ts, issued[j], fs[issued[j]])]]]
        IN IF Len(issued) = 0
           THEN [next EXCEPT !.pc = "done", !.ret = Some(Return(VideoResults(res, rejected)))]
           ELSE next

\* The call of an UploadService method on files fs: it runs up to its first
\* await, and past it when no request is outstanding.
Call(o, fs, ts, t) ==
    LET items == StartStorage(fs, FileTypeOf(o), 0)
        order == SelectSeq(Indices(fs), LAMBDA k : S3Settled(items[k]))
        a == AfterStorage(o, fs, ts, t, items, order)
    IN /\ pc = "idle"
       /\ op' = o
       /\ filesArg' = Some(fs)
       /\ files' = fs
       /\ titles' = ts
       /\ title' = t
       /\ s3' = items
       /\ del' = NoDeletes(Len(fs))
       /\ pc' = a.pc
       /\ mux' = a.mux
       /\ results' = a.results
       /\ ret' = a.ret
       /\ createCalls' = a.createCalls
       /\ s3Results' = a.s3Results
       /\ settleOrder' = a.settleOrder
       /\ log' = log \cup a.logs
       /\ UNCHANGED <<bucket, deleteCalls>>
       /\ UNCHANGED batchVars

UploadVideo ==
    /\ pc = "idle"
    /\ UNCHANGED body
    /\ \E f \in FilePool, t \in {None} \cup {Some(x) : x \in TitlePool} :
          Call("uploadVideo", <<f>>, None, t)

UploadImage ==
    /\ pc = "idle"
    /\ UNCHANGED body
    /\ \E f \in FilePool : Call("uploadImage", <<f>>, None, None)

\* `!files || files.length === 0` on the files argument.
NoFiles(arg) == ~IsSome(arg) \/ Len(Val(arg)) = 0

\* The file lists a batch method is called with: absent, or a list.
FileArgs == {None} \cup {Some(fs) : fs \in FileLists}

\* Mutant of EmptyResults: a call without files is rejected.
EmptyResultsThrown == Throw("No files provided")

\* `return []`
EmptyResults == Return(<<>>)

\* `if (!files || files.length === 0) return []`, before anything else.
ReturnEmpty(o, arg, ts) ==
    /\ op' = o
    /\ filesArg' = arg
    /\ titles' = ts
    /\ ret' = Some(EmptyResults)
    /\ pc' = "done"
    /\ UNCHANGED <<files, title, s3, mux, del, results, bucket, s3Results,
                   settleOrder, createCalls, deleteCalls, log>>
    /\ UNCHANGED batchVars

UploadMultipleVideos ==
    /\ pc = "idle"
    /\ UNCHANGED body
    /\ \E arg \in FileArgs :
       \E ts \in TitleLists(IF IsSome(arg) THEN Len(Val(arg)) ELSE 0) :
          IF NoFiles(arg)
          THEN ReturnEmpty("uploadMultipleVideos", arg, ts)
          ELSE Call("uploadMultipleVideos", Val(arg), ts, None)

UploadMultipleImages ==
    /\ pc = "idle"
    /\ UNCHANGED body
    /\ \E arg \in FileArgs :
          IF NoFiles(arg)
          THEN ReturnEmpty("uploadMultipleImages", arg, None)
          ELSE Call("uploadMultipleImages", Val(arg), None, None)

\* One uploadFile promise moves on to item: the rest of the call follows.
StorageStep(k, item, lg) ==
    LET items == [s3 EXCEPT ![k] = item]
        order == IF S3Settled(item) THEN Append(settleOrder, k) ELSE settleOrder
        a == AfterStorage(op, files, titles, title, items, order)
    IN /\ s3' = items
       /\ pc' = a.pc
       /\ mux' = a.mux
       /\ results' = a.results
       /\ ret' = a.ret
       /\ createCalls' = a.createCalls
       /\ s3Results' = a.s3Results
       /\ settleOrder' = a.settleOrder
       /\ log' = log \cup lg \cup a.logs
       /\ UNCHANGED <<op, files, titles, title, del, deleteCalls>>
       /\ UNCHANGED <<batchVars, body, filesArg>>

\* The PutObjectCommand of file k settles.
PutSettles ==
    /\ pc = "awaitS3"
    /\ op \in SingleOps \cup BatchOps
    /\ \E k \in DOMAIN s3 : \E r \in PutOutcomes :
          /\ s3[k].status = "put"
          /\ bucket' = IF r.ok THEN bucket \cup {Val(s3[k].key)} ELSE bucket
          /\ StorageStep(k, UploadFileAfterPut(s3[k], r), UploadFileLog(s3[k], r))

\* The HeadObjectCommand of file k settles.
HeadSettles ==
    /\ pc = "awaitS3"
    /\ op \in SingleOps \cup BatchOps
    /\ \E k \in DOMAIN s3 : \E r \in HeadOutcomes(files[k]) :
          /\ s3[k].status = "head"
          /\ UNCHANGED bucket
          /\ StorageStep(k, UploadFileAfterHead(s3[k], r), UploadFileLog(s3[k], r))

\* The callback of file k in uploadMultipleVideos produced result r: the
\* Promise.all resolves, and the method returns, with the last of them.
CallbackReturns(k, r) ==
    LET res == [results EXCEPT ![k] = Some(r)]
        order == Append(settleOrder, k)
    IN /\ results' = res
       /\ settleOrder' = order
       /\ IF \A j \in DOMAIN res : IsSome(res[j])
          THEN pc' = "done" /\ ret' = Some(Return(VideoResults(res, order)))
          ELSE UNCHANGED <<pc, ret>>

\* The createAsset call of file k settles.
CreateAssetSettles == \E k \in DOMAIN mux : \E r \in MuxOutcomes(k) :
    LET call == CreateAssetSettle(mux[k], r) IN
    /\ pc = "awaitMux"
    /\ op \in {"uploadVideo", "uploadMultipleVideos"}
    /\ mux[k].status = "inflight"
    /\ mux' = [mux EXCEPT ![k] = call]
    /\ UNCHANGED <<op, files, titles, title, s3, bucket, s3Results, createCalls>>
    /\ UNCHANGED <<batchVars, body, filesArg>>
    /\ IF op = "uploadVideo"
       THEN /\ pc' = "done"
            /\ IF r.ok
               THEN /\ ret' = Some(Return(VideoSuccess(Val(call.value), Val(s3[1].value),
                                                       files[1].originalname)))
                    /\ log' = log
               ELSE /\ ret' = Some(UploadVideoCatch(Val(call.reason), files[1]))
                    /\ log' = log \cup CreateAssetLog(r)
                                  \cup {"Failed to upload video: " \o Val(call.reason)}
            /\ UNCHANGED <<del, results, settleOrder, deleteCalls>>
       ELSE IF r.ok
       THEN /\ CallbackReturns(k, ResultSuccess(s3Results[k], Val(call.value)))
            /\ UNCHANGED <<del, deleteCalls, log>>
       ELSE /\ del' = [del EXCEPT ![k] = [status |-> "inflight",
                                          key |-> Some(CleanupKey(s3Results[k])),
                                          reason |-> None]]
            /\ deleteCalls' = deleteCalls (+) SetToBag({CleanupKey(s3Results[k])})
            /\ log' = log \cup CreateAssetLog(r)
            /\ IF DeleteAwaited(CleanupKey(s3Results[k]))
               THEN UNCHANGED <<pc, ret, results, settleOrder>>
               ELSE CallbackReturns(k, ResultFailed(s3Results[k], Val(call.reason), None))

\* The deleteFile call of file k settles.
DeleteSettles == \E k \in DOMAIN del : \E r \in DeleteOutcomes :
    LET d == DeleteFileSettle(del[k], r) IN
    /\ pc = "awaitMux"
    /\ op = "uploadMultipleVideos"
    /\ del[k].status = "inflight"
    /\ UNCHANGED <<batchVars, body, filesArg>>
    /\ del' = [del EXCEPT ![k] = d]
    /\ bucket' = IF r.ok THEN bucket \ {Val(del[k].key)} ELSE bucket
    /\ UNCHANGED <<op, files, titles, title, s3, mux, s3Results, createCalls, deleteCalls>>
    /\ IF d.status = "rejected" /\ ~DeleteCaught(d)
       THEN /\ pc' = "done"
            /\ ret' = Some(Throw("Batch upload failed: " \o Val(d.reason)))
            /\ log' = log \cup {Val(d.reason), "Batch upload failed: " \o Val(d.reason)}
            /\ UNCHANGED <<results, settleOrder>>
       ELSE /\ CallbackReturns(k, ResultFailed(s3Results[k], Val(mux[k].reason), d.reason))
            /\ log' = log \cup
                 (IF d.status = "rejected"
                  THEN {Val(d.reason),
                        "Failed to delete failed upload from S3: " \o Val(d.reason)}
                  ELSE {})

Init ==
    /\ op = "none"
    /\ files = <<>>
    /\ titles = None
    /\ title = None
    /\ pc = "idle"
    /\ s3 = <<>>
    /\ mux = <<>>
    /\ del = <<>>
    /\ results = <<>>
    /\ ret = None
    /\ bucket = {}
    /\ s3Results = <<>>
    /\ settleOrder = <<>>
    /\ createCalls = <<>>
    /\ deleteCalls = EmptyBag
    /\ log = {}
    /\ loopI = 0
    /\ loopJ = 0
    /\ faults = 0
    /\ body = [title |-> None, titles |-> None, id |-> None]
    /\ filesArg = None

Next ==
    \/ UploadVideo
    \/ UploadImage
    \/ UploadMultipleVideos
    \/ UploadMultipleImages
    \/ PutSettles
    \/ HeadSettles
    \/ CreateAssetSettles
    \/ DeleteSettles

Spec == Init /\ [][Next]_vars

(***************************************************************************)
(* The batched UploadService.uploadMultipleVideos, the earlier form of the  *)
(* method, with the S3Service of its time (video files only, no head       *)
(* request) and MuxService.createMultipleAssets.  Each action is one       *)
(* stretch of the method between two awaits or one turn of one of its      *)
(* loops.                                                                  *)
(***************************************************************************)
ALLOWED_MIME_TYPES ==
    <<"video/mp4", "video/quicktime", "video/x-msvideo", "video/x-matroska", "video/webm">>

\* validateFile of the video-only S3Service: the exception's message, if any.
ValidateMimeType(file) ==
    IF file.mimetype = "" \/ file.mimetype \notin Range(ALLOWED_MIME_TYPES)
    THEN Some("Invalid file type. Allowed types: " \o Join(ALLOWED_MIME_TYPES, ", "))
    ELSE None

\* Error.prototype.toString of an exception of the given class.
ErrorToString(name, message) == name \o ": " \o message

\* uploadFile of the video-only S3Service up to its await: validation, then
\* the put is issued under the default folder.
VideoUploadFileStart(file, uuid) ==
    LET err == ValidateMimeType(file) IN
    IF IsSome(err)
    THEN [status |-> "rejected", key |-> None, value |-> None, reason |-> err]
    ELSE [status |-> "put", key |-> Some(FileKey("videos", uuid, file.originalname)),
          value |-> None, reason |-> None]

\* uploadFile of the video-only S3Service when its PutObjectCommand settles.
VideoUploadFileAfterPut(item, r) ==
    IF r.ok
    THEN [item EXCEPT !.status = "fulfilled",
                      !.value = Some([url |-> FileUrl(Val(item.key)), key |-> Val(item.key)])]
    ELSE [item EXCEPT !.status = "rejected",
                      !.reason = Some("Failed to upload file to S3: " \o r.message)]

\* uploadMultipleFiles of the video-only S3Service: the results.map over the
\* outcome of Promise.allSettled.
AllSettledUploads(items) ==
    [k \in DOMAIN items |->
        IF items[k].status = "fulfilled"
        THEN [status |-> "fulfilled", value |-> items[k].value, reason |-> None]
        ELSE [status |-> "rejected", value |-> None,
              reason |-> Some(IF IsSome(items[k].reason)
                              THEN ErrorToString("FileUploadException",
                                                 Val(items[k].reason))
                              ELSE "Unknown error")]]

\* Mutant of UploadsResolved: the promise resolves with the first upload
\* that settles.
UploadsResolvedEarly(items) == \E k \in DOMAIN items : S3Settled(items[k])

\* Promise.allSettled over the uploadFile promises resolves once every one
\* of them has settled.
UploadsResolved(items) == \A k \in DOMAIN items : S3Settled(items[k])

MAX_CONCURRENT_UPLOADS == 5

MAX_FILES_PER_REQUEST == 10

BatchedOp == "batchedUploadMultipleVideos"

\* The k-th file of a request to the batched method.
BatchedFile(k) ==
    [originalname |-> "v" \o ToString(k) \o ".mp4", mimetype |-> "video/mp4", size |-> 50]

BatchedFiles(n) == [k \in 1..n |-> BatchedFile(k)]

\* Mutant of BatchedValidate: the file count is not checked.
BatchedValidateWithoutLimit(fs, ts) ==
    IF IsSome(ts) /\ Len(Val(ts)) # Len(fs)
    THEN Some("Number of titles must match number of files")
    ELSE None

\* Mutant of BatchedValidate: the titles are not checked.
BatchedValidateWithoutTitles(fs, ts) ==
    IF Len(fs) > MAX_FILES_PER_REQUEST
    THEN Some("Maximum " \o ToString(MAX_FILES_PER_REQUEST) \o " files allowed per request")
    ELSE None

\* The validation at the head of the method: the message of the
\* FileUploadException it throws, if any.
BatchedValidate(fs, ts) ==
    IF Len(fs) > MAX_FILES_PER_REQUEST
    THEN Some("Maximum " \o ToString(MAX_FILES_PER_REQUEST) \o " files allowed per request")
    ELSE IF IsSome(ts) /\ Len(Val(ts)) # Len(fs)
    THEN Some("Number of titles must match number of files")
    ELSE None

\* Mutant of Slice: the element at `to` is taken too.
SliceInclusive(arr, from, to) ==
    SubSeq(arr, from + 1, IF to + 1 < Len(arr) THEN to + 1 ELSE Len(arr))

\* Array.prototype.slice(from, to), both counted from 0.
Slice(arr, from, to) ==
    SubSeq(arr, from + 1, IF to < Len(arr) THEN to ELSE Len(arr))

\* Mutant of Batch: the rest of the files in one batch.
BatchUnbounded == Slice(files, loopI, Len(files))

\* const batch = files.slice(i, i + MAX_CONCURRENT_UPLOADS)
Batch == Slice(files, loopI, loopI + MAX_CONCURRENT_UPLOADS)

\* const batchTitles = titles?.slice(i, i + MAX_CONCURRENT_UPLOADS)
BatchTitles ==
    IF IsSome(titles)
    THEN Some(Slice(Val(titles), loopI, loopI + MAX_CONCURRENT_UPLOADS))
    ELSE None

\* successfulS3Uploads: the fulfilled entries, each with its place in the
\* batch and its title.
SuccessfulS3Uploads(entries, batch, batchTitles) ==
    LET withTitle == [k \in DOMAIN entries |->
                        [status |-> entries[k].status, value |-> entries[k].value,
                         place |-> k,
                         title |-> OrElse(At(batchTitles, k), batch[k].originalname)]]
    IN SelectSeq(withTitle, LAMBDA e : e.status = "fulfilled" /\ IsSome(e.value))

\* createMultipleAssets: the results.map over the settled createAsset promises.
MuxResults(calls) ==
    [m \in DOMAIN calls |->
        IF calls[m].status = "fulfilled"
        THEN [status |-> "fulfilled", value |-> calls[m].value, reason |-> None]
        ELSE [status |-> "rejected", value |-> None,
              reason |-> Some(OrElse(Some(ErrorToString("Error", Val(calls[m].reason))),
                                     "Unknown error"))]]

\* The success outcome of the batched method, a VideoResponseDto.
BatchedSuccess(muxResult, file) ==
    LET v == Val(muxResult.value) IN
    [status |-> "success",
     data |-> Some([id |-> v.id, title |-> v.title, status |-> v.status,
                    uploadUrl |-> v.s3Url, playbackId |-> v.playbackId,
                    duration |-> v.duration, aspectRatio |-> v.aspectRatio,
                    createdAt |-> v.createdAt]),
     error |-> None, fileName |-> file.originalname]

\* The failed outcome pushed after the cleanup:
\* `muxResult?.reason || 'Failed to process with Mux'`.
BatchedMuxFailed(muxResult, file) ==
    FailedResult(Some(IF IsSome(muxResult)
                      THEN OrElse(Val(muxResult).reason, "Failed to process with Mux")
                      ELSE "Failed to process with Mux"),
                 file.originalname)

\* A failing response is drawn only while the request's faults are below
\* the bound.
Drawn(r) ==
    /\ r.ok \/ faults < MaxFaults
    /\ faults' = IF r.ok THEN faults ELSE faults + 1

\* The call on files fs with titles ts: validation, then the batch loop is
\* entered.
BatchedCall(fs, ts) ==
    LET err == BatchedValidate(fs, ts) IN
    /\ op' = BatchedOp
    /\ filesArg' = Some(fs)
    /\ files' = fs
    /\ titles' = ts
    /\ results' = <<>>
    /\ loopI' = 0
    /\ IF IsSome(err)
       THEN pc' = "done" /\ ret' = Some(Throw(Val(err)))
       ELSE pc' = "batchLoop" /\ ret' = None
    /\ UNCHANGED <<title, s3, mux, del, bucket, s3Results, settleOrder, createCalls,
                   deleteCalls, log, loopJ, faults>>

BatchedUploadMultipleVideos ==
    /\ pc = "idle"
    /\ UNCHANGED body
    /\ \E n \in 0..MaxBatchFiles : \E ts \in TitleLists(n) :
          BatchedCall(BatchedFiles(n), ts)

\* for (let i = 0; i < files.length; ...): the next batch's uploads are
\* issued by uploadMultipleFiles, or the results are returned.
BatchLoop ==
    /\ pc = "batchLoop"
    /\ IF loopI < Len(files)
       THEN /\ s3' = [k \in DOMAIN Batch |-> VideoUploadFileStart(Batch[k], loopI + k)]
            /\ mux' = <<>>
            /\ del' = NoDeletes(Len(Batch))
            /\ s3Results' = <<>>
            /\ pc' = "awaitS3"
            /\ UNCHANGED ret
       ELSE /\ ret' = Some(Return(results))
            /\ pc' = "done"
            /\ UNCHANGED <<s3, mux, del, s3Results>>
    /\ UNCHANGED <<op, files, titles, title, body, filesArg, results, bucket, settleOrder, createCalls,
                   deleteCalls, log, loopI, loopJ, faults>>

\* The PutObjectCommand of the batch's k-th file settles.
BatchedPutSettles ==
    /\ pc = "awaitS3"
    /\ op = BatchedOp
    /\ \E k \in DOMAIN s3 : \E r \in PutOutcomes :
          /\ s3[k].status = "put"
          /\ Drawn(r)
          /\ s3' = [s3 EXCEPT ![k] = VideoUploadFileAfterPut(s3[k], r)]
          /\ bucket' = IF r.ok THEN bucket \cup {Val(s3[k].key)} ELSE bucket
          /\ log' = log \cup
                (IF r.ok THEN {} ELSE {"Failed to upload file to S3: " \o r.message})
    /\ UNCHANGED <<op, files, titles, title, body, filesArg, pc, mux, del, results, ret, s3Results,
                   settleOrder, createCalls, deleteCalls, loopI, loopJ>>

\* uploadMultipleFiles has resolved: createMultipleAssets issues a createAsset
\* call for each successful upload.
BatchedAfterStorage ==
    /\ pc = "awaitS3"
    /\ op = BatchedOp
    /\ UploadsResolved(s3)
    /\ LET entries == AllSettledUploads(s3)
           ok == SuccessfulS3Uploads(entries, Batch, BatchTitles)
       IN /\ s3Results' = entries
          /\ mux' = [m \in DOMAIN ok |-> IssuedCall(Val(ok[m].value).url, ok[m].title)]
          /\ createCalls' = createCalls \o
                [m \in DOMAIN ok |-> [index |-> loopI + ok[m].place,
                                      url |-> Val(ok[m].value).url,
                                      title |-> ok[m].title]]
          /\ log' = log \cup
                {"Failed to upload file to S3: " \o Val(entries[k].reason) :
                    k \in {x \in DOMAIN entries : entries[x].status = "rejected"}}
    /\ pc' = "awaitMux"
    /\ UNCHANGED <<op, files, titles, title, body, filesArg, s3, del, results, ret, bucket, settleOrder,
                   deleteCalls, loopI, loopJ, faults>>

\* The createAsset call of the m-th successful upload of the batch settles.
BatchedCreateAssetSettles ==
    /\ pc = "awaitMux"
    /\ op = BatchedOp
    /\ \E m \in DOMAIN mux : \E r \in MuxOutcomes(createCalls[Len(createCalls) - Len(mux) + m].index) :
          /\ mux[m].status = "inflight"
          /\ Drawn(r)
          /\ mux' = [mux EXCEPT ![m] = CreateAssetSettle(mux[m], r)]
          /\ log' = log \cup CreateAssetLog(r)
    /\ UNCHANGED <<op, files, titles, title, body, filesArg, pc, s3, del, results, ret, bucket,
                   s3Results, settleOrder, createCalls, deleteCalls, loopI, loopJ>>

\* Mutant of AssetsResolved: createMultipleAssets resolves only once every
\* createAsset call has fulfilled.
AssetsResolvedWhenFulfilled(calls) ==
    \A m \in DOMAIN calls : calls[m].status = "fulfilled"

\* createMultipleAssets: Promise.allSettled resolves once every createAsset
\* call has fulfilled or rejected.
AssetsResolved(calls) ==
    \A m \in DOMAIN calls : calls[m].status \in {"fulfilled", "rejected"}

\* createMultipleAssets has resolved: the result loop starts.
BatchedAfterMux ==
    /\ pc = "awaitMux"
    /\ op = BatchedOp
    /\ AssetsResolved(mux)
    /\ loopJ' = 0
    /\ pc' = "resultLoop"
    /\ log' = log \cup
          {"Failed to create Mux asset: " \o Val(MuxResults(mux)[m].reason) :
              m \in {x \in DOMAIN mux : mux[x].status = "rejected"}}
    /\ UNCHANGED <<op, files, titles, title, body, filesArg, s3, mux, del, results, ret, bucket,
                   s3Results, settleOrder, createCalls, deleteCalls, loopI, faults>>

\* for (let j = 0; j < batch.length; j++): one turn, up to its push or to
\* the await of cleanupS3File; after the last turn, i += MAX_CONCURRENT_UPLOADS.
ResultLoop ==
    /\ pc = "resultLoop"
    /\ IF loopJ < Len(Batch)
       THEN LET file == Batch[loopJ + 1]
                s3Result == s3Results[loopJ + 1]
                muxResult == At(Some(MuxResults(mux)), loopJ + 1)
            IN IF s3Result.status = "rejected"
               THEN /\ results' = Append(results, FailedResult(s3Result.reason,
                                                               file.originalname))
                    /\ loopJ' = loopJ + 1
                    /\ UNCHANGED <<pc, del, deleteCalls, loopI>>
               ELSE IF ~IsSome(muxResult) \/ Val(muxResult).status = "rejected"
               THEN /\ del' = [del EXCEPT ![loopJ + 1] =
                                  [status |-> "inflight",
                                   key |-> Some(Val(s3Result.value).key),
                                   reason |-> None]]
                    /\ deleteCalls' = deleteCalls (+) SetToBag({Val(s3Result.value).key})
                    /\ pc' = "awaitCleanup"
                    /\ UNCHANGED <<results, loopI, loopJ>>
               ELSE /\ results' = Append(results, BatchedSuccess(Val(muxResult), file))
                    /\ loopJ' = loopJ + 1
                    /\ UNCHANGED <<pc, del, deleteCalls, loopI>>
       ELSE /\ loopI' = loopI + MAX_CONCURRENT_UPLOADS
            /\ pc' = "batchLoop"
            /\ UNCHANGED <<results, del, deleteCalls, loopJ>>
    /\ UNCHANGED <<op, files, titles, title, body, filesArg, s3, mux, ret, bucket, s3Results,
                   settleOrder, createCalls, log, faults>>

\* The deleteFile call of cleanupS3File settles: a failure is logged, the
\* failed outcome is pushed and the result loop goes on.
BatchedDeleteSettles ==
    /\ pc = "awaitCleanup"
    /\ op = BatchedOp
    /\ \E r \in DeleteOutcomes :
          LET d == DeleteFileSettle(del[loopJ + 1], r) IN
          /\ Drawn(r)
          /\ del' = [del EXCEPT ![loopJ + 1] = d]
          /\ bucket' = IF r.ok THEN bucket \ {Val(d.key)} ELSE bucket
          /\ log' = log \cup
                (IF r.ok THEN {}
                 ELSE {Val(d.reason),
                       "Failed to cleanup S3 file " \o Val(d.key) \o ": " \o Val(d.reason)})
    /\ results' = Append(results,
                         BatchedMuxFailed(At(Some(MuxResults(mux)), loopJ + 1),
                                          Batch[loopJ + 1]))
    /\ loopJ' = loopJ + 1
    /\ pc' = "resultLoop"
    /\ UNCHANGED <<op, files, titles, title, body, filesArg, s3, mux, ret, s3Results, settleOrder,
                   createCalls, deleteCalls, loopI>>

NextBatched ==
    \/ BatchedUploadMultipleVideos
    \/ BatchLoop
    \/ BatchedPutSettles
    \/ BatchedAfterStorage
    \/ BatchedCreateAssetSettles
    \/ BatchedAfterMux
    \/ ResultLoop
    \/ BatchedDeleteSettles

SpecBatched == Init /\ [][NextBatched]_vars

(***************************************************************************)
(* Single uploads of files around the size limits of S3Service.            *)
(***************************************************************************)
BoundaryTypes == {"", "video/mp4", "video/webm", "image/png", "image/jpeg", "application/pdf"}

BoundarySizes == {0, 5 * MB - 1, 5 * MB, 5 * MB + 1, 100 * MB - 1, 100 * MB, 100 * MB + 1}

BoundaryFiles ==
    {[originalname |-> "f.bin", mimetype |-> m, size |-> n] :
        m \in BoundaryTypes, n \in BoundarySizes}

\* uploadVideo of a file around the limits.
UploadBoundaryVideo ==
    /\ pc = "idle"
    /\ UNCHANGED body
    /\ \E f \in BoundaryFiles : Call("uploadVideo", <<f>>, None, None)

\* uploadImage of a file around the limits.
UploadBoundaryImage ==
    /\ pc = "idle"
    /\ UNCHANGED body
    /\ \E f \in BoundaryFiles : Call("uploadImage", <<f>>, None, None)

NextBoundary ==
    \/ UploadBoundaryVideo
    \/ UploadBoundaryImage
    \/ PutSettles
    \/ HeadSettles
    \/ CreateAssetSettles

SpecBoundary == Init /\ [][NextBoundary]_vars

(***************************************************************************)
(* UploadController (current form): the single-video and batch-video       *)
(* endpoints in front of the current UploadService.  A title of a request  *)
(* body is a sequence of characters; the service is handed its string.     *)
(***************************************************************************)
\* The characters of the titles clients send: a letter, a space, a character
\* outside the sanitizer's class.
TitleChars == {"a", " ", "<"}

RawTitles == SeqsUpTo(TitleChars, MaxTitleLen)

\* The string of a sequence of characters.
Str(chars) == Join(chars, "")

\* What String.prototype.trim removes.
WhiteSpace == {" ", "\t", "\n", "\r"}

RECURSIVE TrimStart(_)
TrimStart(chars) ==
    IF chars = <<>> \/ Head(chars) \notin WhiteSpace THEN chars
    ELSE TrimStart(Tail(chars))

RECURSIVE TrimEnd(_)
TrimEnd(chars) ==
    IF chars = <<>> \/ chars[Len(chars)] \notin WhiteSpace THEN chars
    ELSE TrimEnd(SubSeq(chars, 1, Len(chars) - 1))

\* String.prototype.trim
Trim(chars) == TrimEnd(TrimStart(chars))

LowerCase ==
    {"a", "b", "c", "d", "e", "f", "g", "h", "i", "j", "k", "l", "m",
     "n", "o", "p", "q", "r", "s", "t", "u", "v", "w", "x", "y", "z"}

UpperCase ==
    {"A", "B", "C", "D", "E", "F", "G", "H", "I", "J", "K", "L", "M",
     "N", "O", "P", "Q", "R", "S", "T", "U", "V", "W", "X", "Y", "Z"}

Digits == {"0", "1", "2", "3", "4", "5", "6", "7", "8", "9"}

\* The characters the class [^a-zA-Z0-9-_. ] does not match: three ranges,
\* then the hyphen, the underscore, the period and the space.
KeptChars == LowerCase \cup UpperCase \cup Digits \cup {"-", "_", ".", " "}

\* .replace(/[^a-zA-Z0-9-_. ]/g, '')
StripChars(chars) == SelectSeq(chars, LAMBDA c : c \in KeptChars)

\* Mutant of SanitizeTitle: the title is not trimmed.
SanitizeTitleWithoutTrim(raw) == StripChars(raw)

\* The callback of rawTitles.map:
\* `title?.trim().replace(/[^a-zA-Z0-9-_. ]/g, '') || ''`.
SanitizeTitle(raw) ==
    LET stripped == StripChars(Trim(raw)) IN
    IF stripped = <<>> THEN <<>> ELSE stripped

\* `Array.isArray(rawTitles) ? rawTitles.map(...) : undefined`
SanitizeTitles(rawTitles) ==
    IF IsSome(rawTitles)
    THEN Some([k \in DOMAIN Val(rawTitles) |-> Str(SanitizeTitle(Val(rawTitles)[k]))])
    ELSE None

\* The FileTypeValidator of the endpoints' ParseFilePipe: of the MIME types
\* of the model, those /(mp4|mov|avi|mkv|webm)$/ matches.
FileTypeValidatorAccepts(mimetype) == mimetype \in {"video/mp4", "video/webm"}

\* The files that reach a handler; the MaxSizeValidator's MAX_SIZE is defined
\* outside the sources, so a file of any size may have passed it.
ControllerFiles == {f \in FilePool : FileTypeValidatorAccepts(f.mimetype)}

\* The titles field of a batch request with n files: absent, or a list of
\* n titles, one of them any title and the others plain.
RawTitleLists(n) ==
    {None} \cup
    (IF n = 0 THEN {Some(<<>>)}
     ELSE { Some([k \in 1..n |-> IF k = q THEN t ELSE <<"a">>]) :
              t \in RawTitles, q \in 1..n })

\* POST upload/video: the title of the body is passed on as it came.
ControllerUploadVideo ==
    /\ pc = "idle"
    /\ \E f \in ControllerFiles, rt \in {None} \cup {Some(t) : t \in RawTitles} :
          /\ body' = [title |-> rt, titles |-> None, id |-> None]
          /\ Call("uploadVideo", <<f>>, None,
                  IF IsSome(rt) THEN Some(Str(Val(rt))) ELSE None)

\* POST upload/videos: the titles of the body are sanitized and passed on.
ControllerUploadMultipleVideos ==
    /\ pc = "idle"
    /\ \E fs \in SeqsUpTo(ControllerFiles, MaxControllerFiles) :
          \E rts \in RawTitleLists(Len(fs)) :
             /\ body' = [title |-> None, titles |-> rts, id |-> None]
             /\ IF Len(fs) = 0
                THEN ReturnEmpty("uploadMultipleVideos", Some(fs), SanitizeTitles(rts))
                ELSE Call("uploadMultipleVideos", fs, SanitizeTitles(rts), None)

\* The asset ids clients ask the status of.
AssetIds == {"asset-1", "asset-2"}

\* What Mux answers to video.assets.retrieve.
RetrieveOutcomes ==
    {[ok |-> TRUE, asset |-> [status |-> st]] : st \in {"preparing", "ready", "errored"}}
    \cup {[ok |-> FALSE, message |-> m] : m \in {"asset not found", "mux unreachable"}}

\* A thrown `new Error(message)`: not an HttpException, it has no status.
ThrowError(message) == [kind |-> "throw", error |-> message, name |-> "Error"]

\* getAssetStatus when video.assets.retrieve settles: the asset's status, or
\* a fixed error in place of the one caught.
GetAssetStatusSettle(r) ==
    IF r.ok THEN Return(r.asset.status) ELSE ThrowError("Failed to get video status")

\* GET upload/video/:id/status: the controller calls getVideoStatus, which
\* calls getAssetStatus, which asks Mux for the asset.
GetVideoStatus ==
    /\ pc = "idle"
    /\ \E id \in AssetIds : body' = [title |-> None, titles |-> None, id |-> Some(id)]
    /\ op' = "getVideoStatus"
    /\ mux' = <<[IdleCall EXCEPT !.status = "inflight"]>>
    /\ pc' = "awaitMux"
    /\ UNCHANGED <<files, titles, title, s3, del, results, ret, bucket, s3Results,
                   settleOrder, createCalls, deleteCalls, log, batchVars, filesArg>>

\* video.assets.retrieve settles; the outcome of getAssetStatus passes
\* through getVideoStatus and the controller as it is.
RetrieveSettles ==
    /\ pc = "awaitMux"
    /\ op = "getVideoStatus"
    /\ \E r \in RetrieveOutcomes :
          /\ mux' = <<[mux[1] EXCEPT !.status = IF r.ok THEN "fulfilled" ELSE "rejected",
                                     !.value = IF r.ok THEN Some(r.asset) ELSE None,
                                     !.reason = IF r.ok THEN None ELSE Some(r.message)]>>
          /\ ret' = Some(GetAssetStatusSettle(r))
          /\ log' = log \cup
                (IF r.ok THEN {} ELSE {"Failed to get asset status: " \o r.message})
    /\ pc' = "done"
    /\ UNCHANGED <<op, files, titles, title, s3, del, results, bucket, s3Results,
                   settleOrder, createCalls, deleteCalls, batchVars, body, filesArg>>

NextController ==
    \/ ControllerUploadVideo
    \/ ControllerUploadMultipleVideos
    \/ GetVideoStatus
    \/ RetrieveSettles
    \/ PutSettles
    \/ HeadSettles
    \/ CreateAssetSettles
    \/ DeleteSettles

SpecController == Init /\ [][NextController]_vars

(***************************************************************************)
(* UploadController (first form) in front of the batched                   *)
(* uploadMultipleVideos: its batch-video endpoint hands the service an     *)
(* empty list when the body has no titles.                                 *)
(***************************************************************************)
\* `Array.isArray(rawTitles) ? rawTitles.map(...) : []`
FirstSanitizeTitles(rawTitles) ==
    IF IsSome(rawTitles)
    THEN Some([k \in DOMAIN Val(rawTitles) |-> Str(SanitizeTitle(Val(rawTitles)[k]))])
    ELSE Some(<<>>)

\* The titles field of a batch request with n files: absent, or one title
\* per file, every second of them empty once sanitized.
FirstRawTitleLists(n) ==
    {None, Some([k \in 1..n |-> IF k % 2 = 1 THEN <<"a">> ELSE <<" ", "<">>])}

\* POST upload/videos of the first form.
FirstControllerUploadMultipleVideos ==
    /\ pc = "idle"
    /\ \E n \in 0..MaxBatchFiles : \E rts \in FirstRawTitleLists(n) :
          /\ body' = [title |-> None, titles |-> rts, id |-> None]
          /\ BatchedCall(BatchedFiles(n), FirstSanitizeTitles(rts))

NextFirstController ==
    \/ FirstControllerUploadMultipleVideos
    \/ BatchLoop
    \/ BatchedPutSettles
    \/ BatchedAfterStorage
    \/ BatchedCreateAssetSettles
    \/ BatchedAfterMux
    \/ ResultLoop
    \/ BatchedDeleteSettles

SpecFirstController == Init /\ [][NextFirstController]_vars

(***************************************************************************)
(* Properties of the current UploadService, checked under Spec.            *)
(***************************************************************************)
Returned == pc = "done" /\ IsSome(ret) /\ Val(ret).kind = "return"

Outcome(k) == Val(ret).value[k]

StorageFailed(k) == s3[k].status = "rejected"

AssetFailed(k) == s3[k].status = "fulfilled" /\ mux[k].status = "rejected"

OutOfOrder(order) == \E a, b \in DOMAIN order : a < b /\ order[a] > order[b]

\* C1: a batch call on n >= 1 files that returns normally returns n outcomes,
\* and outcome k carries the file name of input file k, whatever the order in
\* which the storage and asset-creation calls completed.
C1_OutcomesFollowInputOrder ==
    (op \in BatchOps /\ Returned /\ Len(files) >= 1) =>
        /\ Len(Val(ret).value) = Len(files)
        /\ \A k \in 1..Len(files) : Outcome(k).fileName = files[k].originalname

\* C1 witness: a batch of differently named files returned after its calls
\* completed out of input order.
C1_Witness ==
    /\ op \in BatchOps
    /\ Returned
    /\ OutOfOrder(settleOrder)
    /\ \E a, b \in 1..Len(files) : files[a].originalname # files[b].originalname
    /\ \E k \in 1..Len(files) : Outcome(k).status = "success"

\* C2: in uploadMultipleVideos, for an item whose storage upload was rejected
\* createAsset is never called, and its outcome is failed with the storage
\* failure's reason as its error.
C2_StorageFailureSkipsAsset ==
    op = "uploadMultipleVideos" =>
        \A k \in DOMAIN s3 : StorageFailed(k) =>
            /\ mux[k].status = "idle"
            /\ \A c \in DOMAIN createCalls : createCalls[c].index # k
            /\ Returned => /\ Outcome(k).status = "failed"
                           /\ Outcome(k).error = s3[k].reason
                           /\ IsSome(Outcome(k).error)

\* C2 witness: a returned batch in which one item failed in storage after its
\* put was issued and another item went on to asset creation.
C2_Witness ==
    /\ op = "uploadMultipleVideos"
    /\ Returned
    /\ \E k \in DOMAIN s3 : StorageFailed(k) /\ IsSome(s3[k].key)
    /\ Len(createCalls) >= 1

\* C3: in uploadMultipleVideos, for an item whose storage upload succeeded and
\* whose createAsset failed, deleteFile is called exactly once with the key
\* written for that item, and with no other key; its outcome is failed.
C3_FailedAssetDeletedOnce ==
    op = "uploadMultipleVideos" =>
        /\ \A k \in DOMAIN mux : AssetFailed(k) =>
              /\ CopiesIn(Val(s3[k].key), deleteCalls) = 1
              /\ Returned => Outcome(k).status = "failed"
        /\ \A key \in BagToSet(deleteCalls) :
              \E k \in DOMAIN mux : AssetFailed(k) /\ s3[k].key = Some(key)

\* C3 witness: a returned batch of two stored files of the same name, the
\* asset of one created and that of the other refused.
C3_Witness ==
    /\ op = "uploadMultipleVideos"
    /\ Returned
    /\ \E a, b \in DOMAIN mux :
          /\ a # b
          /\ files[a].originalname = files[b].originalname
          /\ AssetFailed(a)
          /\ mux[b].status = "fulfilled"

\* C4: in uploadVideo, when the storage write succeeded and asset creation
\* failed, a delete of the written object has been issued by the time the
\* failed outcome is returned.
C4_SingleVideoCleansUp ==
    (op = "uploadVideo" /\ pc = "done" /\ AssetFailed(1)) =>
        CopiesIn(Val(s3[1].key), deleteCalls) >= 1

SingleFailure == StorageFailed(1) \/ AssetFailed(1)

SingleFailureMessage ==
    IF StorageFailed(1) THEN s3[1].reason ELSE mux[1].reason

C6_CurrentPreflightValidation ==
    (op = "uploadMultipleVideos" /\ IsSome(titles) /\ Len(Val(titles)) # Len(files)) =>
        /\ IsSome(ret)
        /\ Val(ret).kind = "throw"
        /\ s3 = <<>>
        /\ createCalls = <<>>

NothingInFlight ==
    /\ \A k \in DOMAIN s3 : S3Settled(s3[k])
    /\ \A k \in DOMAIN mux : mux[k].status # "inflight"
    /\ \A k \in DOMAIN del : del[k].status # "inflight"

\* C9: a batch call of the current service never raises, whatever fails for
\* an item: it ends returning one outcome per item, with every call of every
\* item issued and settled (createAsset for each stored video).
C9_BatchNeverRaises ==
    op \in BatchOps =>
        /\ IsSome(ret) => Val(ret).kind = "return"
        /\ (pc = "done" /\ Len(files) >= 1) =>
              /\ Returned
              /\ DOMAIN Val(ret).value = 1..Len(files)
              /\ NothingInFlight
              /\ op = "uploadMultipleVideos" =>
                    \A k \in DOMAIN s3 :
                        s3[k].status = "fulfilled" => mux[k].status # "idle"

\* C9 witness: a returned video batch in which one item failed in storage, one
\* failed in asset creation and then in its compensating delete, and one
\* succeeded.
C9_Witness ==
    /\ op = "uploadMultipleVideos"
    /\ Returned
    /\ \E a, b, c \in DOMAIN s3 :
          /\ StorageFailed(a)
          /\ AssetFailed(b) /\ del[b].status = "rejected"
          /\ Outcome(c).status = "success"

NoCallIssued ==
    /\ s3 = <<>>
    /\ bucket = {}
    /\ mux = <<>>
    /\ createCalls = <<>>
    /\ deleteCalls = EmptyBag
    /\ \A k \in DOMAIN del : del[k].status = "idle"

BatchedThrown == pc = "done" /\ IsSome(ret) /\ Val(ret).kind = "throw"

\* C7: a request to the batched uploadMultipleVideos with more than 10 files
\* is rejected with the FileUploadException "Maximum 10 files allowed per
\* request", and no storage upload, asset creation or delete call is issued
\* for any of its files.
C7_TooManyFilesRejected ==
    (op = BatchedOp /\ Len(files) > 10) =>
        /\ BatchedThrown
        /\ Val(ret).error = "Maximum 10 files allowed per request"
        /\ NoCallIssued

\* A request with 11 files has been rejected.
C7_Witness ==
    /\ op = BatchedOp
    /\ Len(files) = 11
    /\ BatchedThrown

\* C8: a request to the batched uploadMultipleVideos whose titles list is
\* present and differs in length from the files is rejected with a
\* FileUploadException before any storage call is issued; with at most 10
\* files the message is "Number of titles must match number of files".
C8_TitlesMismatchRejected ==
    (op = BatchedOp /\ IsSome(titles) /\ Len(Val(titles)) # Len(files)) =>
        /\ BatchedThrown
        /\ Len(files) <= 10 =>
              Val(ret).error = "Number of titles must match number of files"
        /\ NoCallIssued

\* A request with 3 files and 2 titles has been rejected.
C8_Witness ==
    /\ op = BatchedOp
    /\ Len(files) = 3
    /\ IsSome(titles)
    /\ Len(Val(titles)) = 2
    /\ BatchedThrown
    /\ NoCallIssued

(***************************************************************************)
(* Properties of S3Service and of the titles, checked under Spec.          *)
(***************************************************************************)
\* The file breaks the rules of its namespace: its MIME type is not allowed
\* there or it is larger than the namespace's ceiling.
Inadmissible(file, fileType) ==
    IF fileType = "video"
    THEN \/ file.mimetype \notin {"video/mp4", "video/quicktime", "video/x-msvideo",
                                   "video/x-matroska", "video/webm"}
         \/ file.size > 100 * 1024 * 1024
    ELSE \/ file.mimetype \notin {"image/jpeg", "image/png", "image/gif", "image/webp"}
         \/ file.size > 5 * 1024 * 1024

\* C11: uploadFile issues no put and no head for a file whose MIME type is
\* not allowed in its namespace or whose size exceeds the namespace's
\* ceiling: the call is rejected at once with a FileUploadException of HTTP
\* status 400 that names the broken rule, and no key is ever made for the
\* file.
C11_InvalidFileNeverStored ==
    \A k \in DOMAIN s3 :
        Inadmissible(files[k], FileTypeOf(op)) =>
            /\ s3[k].status = "rejected"
            /\ s3[k].key = None
            /\ UploadFileRejection(s3[k]).name = "FileUploadException"
            /\ UploadFileRejection(s3[k]).status = 400
            /\ UploadFileRejection(s3[k]).message \in
                  {"Invalid video type. Allowed types: video/mp4, video/quicktime, video/x-msvideo, video/x-matroska, video/webm",
                   "Invalid image type. Allowed types: image/jpeg, image/png, image/gif, image/webp",
                   "File size exceeds limit. Maximum size for video is 100MB",
                   "File size exceeds limit. Maximum size for image is 5MB"}

\* A single image upload of a 6MB image/png file has ended in the size-limit
\* failure with nothing stored.
C11_Witness ==
    /\ op = "uploadImage"
    /\ pc = "done"
    /\ files[1].mimetype = "image/png"
    /\ files[1].size = 6 * 1024 * 1024
    /\ s3[1].status = "rejected"
    /\ Val(ret).value.error = Some("File size exceeds limit. Maximum size for image is 5MB")
    /\ bucket = {}

\* The title the caller supplied for the k-th file, if any.
SuppliedTitle(k) == IF op = "uploadVideo" THEN title ELSE At(titles, k)

\* The supplied title when it is present and non-empty, the original file
\* name otherwise.
ExpectedTitle(k) ==
    IF IsSome(SuppliedTitle(k)) /\ Val(SuppliedTitle(k)) # ""
    THEN Val(SuppliedTitle(k))
    ELSE files[k].originalname

\* The outcome of the k-th file of a call that has returned.
ResultOf(k) == IF op = "uploadVideo" THEN Val(ret).value ELSE Val(ret).value[k]

\* C12: in uploadVideo and in uploadMultipleVideos the title passed to
\* createAsset for an item is the supplied title when it is present and
\* non-empty and the item's original file name otherwise, and a success
\* outcome carries that title and the status asset creation returned.
C12_TitleResolution ==
    op \in {"uploadVideo", "uploadMultipleVideos"} =>
        /\ \A j \in DOMAIN createCalls :
              createCalls[j].title = ExpectedTitle(createCalls[j].index)
        /\ \A k \in DOMAIN mux :
              mux[k].status # "idle" => mux[k].title = Some(ExpectedTitle(k))
        /\ Returned =>
              \A k \in DOMAIN files :
                  ResultOf(k).status = "success" =>
                      /\ Val(ResultOf(k).data).title = ExpectedTitle(k)
                      /\ Val(ResultOf(k).data).status = Val(mux[k].value).status
                      /\ Val(ResultOf(k).data).status \in MuxStatuses

\* A batch has returned two successes, one under its supplied title and one
\* whose empty title fell back to the file name.
C12_Witness ==
    /\ op = "uploadMultipleVideos"
    /\ Returned
    /\ \E a, b \in DOMAIN files :
          /\ At(titles, a) = Some("My Video")
          /\ At(titles, b) = Some("")
          /\ Outcome(a).status = "success"
          /\ Outcome(b).status = "success"
          /\ Val(Outcome(a).data).title = "My Video"
          /\ Val(Outcome(b).data).title = files[b].originalname

(***************************************************************************)
(* Properties of the UploadController, checked under SpecController.       *)
(***************************************************************************)
IsSpace(c) == c \in {" ", "\t", "\n", "\r"}

\* raw without its leading and trailing whitespace.
TrimmedOf(raw) ==
    IF \A i \in DOMAIN raw : IsSpace(raw[i]) THEN <<>>
    ELSE LET lo == CHOOSE i \in DOMAIN raw :
                     ~IsSpace(raw[i]) /\ \A j \in 1..(i - 1) : IsSpace(raw[j])
             hi == CHOOSE i \in DOMAIN raw :
                     ~IsSpace(raw[i]) /\ \A j \in (i + 1)..Len(raw) : IsSpace(raw[j])
         IN [i \in 1..(hi - lo + 1) |-> raw[lo + i - 1]]

\* Characters on both sides of the borders of the sanitizer's class.
ProbeChars ==
    {"a", "m", "z", "A", "M", "Z", "0", "5", "9", "-", "_", ".", " ",
     "<", ">", ":", ";", "@", "[", "^", "{", "/", "!", "\t"}

\* Letters, digits, hyphen, underscore, period, space.
IsTitleChar(c) ==
    c \in {"a", "m", "z", "A", "M", "Z", "0", "5", "9", "-", "_", ".", " "}

\* The trimmed title without the characters outside the class.
CleanTitleOf(raw) == SelectSeq(TrimmedOf(raw), IsTitleChar)

\* C13: the batch-video endpoint hands the service, for every title of the
\* body, that title with its surrounding whitespace trimmed and then every
\* character other than a letter, a digit, a hyphen, an underscore, a period
\* or a space removed; an item whose title comes out empty is given its
\* original file name as the title of its asset.
C13_TitlesSanitized ==
    /\ \A c \in ProbeChars : (c \in KeptChars) <=> IsTitleChar(c)
    /\ (op = "uploadMultipleVideos" /\ IsSome(body.titles)) =>
          /\ IsSome(titles)
          /\ DOMAIN Val(titles) = DOMAIN Val(body.titles)
          /\ \A k \in DOMAIN Val(titles) :
                Val(titles)[k] = Str(CleanTitleOf(Val(body.titles)[k]))
          /\ \A j \in DOMAIN createCalls :
                LET k == createCalls[j].index IN
                createCalls[j].title =
                    IF CleanTitleOf(Val(body.titles)[k]) = <<>>
                    THEN files[k].originalname
                    ELSE Str(CleanTitleOf(Val(body.titles)[k]))

\* A batch has returned a success for an item whose title " < " came out
\* empty and whose asset is named after the file.
C13_Witness ==
    /\ op = "uploadMultipleVideos"
    /\ Returned
    /\ IsSome(body.titles)
    /\ \E k \in DOMAIN files :
          /\ Val(body.titles)[k] = <<" ", "<", " ">>
          /\ Val(titles)[k] = ""
          /\ Outcome(k).status = "success"
          /\ Val(Outcome(k).data).title = files[k].originalname

\* The title of the body for the k-th file of the request, if any.
BodyTitle(k) == IF op = "uploadVideo" THEN body.title ELSE At(body.titles, k)

\* C14: every title of a request body that reaches createAsset, from the
\* single-video endpoint as from the batch-video endpoint, is the sanitized
\* form of what the client sent (or the file name when that form is empty).
C14_EveryTitleSanitized ==
    \A j \in DOMAIN createCalls :
        LET k == createCalls[j].index IN
        IsSome(BodyTitle(k)) =>
            createCalls[j].title =
                IF CleanTitleOf(Val(BodyTitle(k))) = <<>>
                THEN files[k].originalname
                ELSE Str(CleanTitleOf(Val(BodyTitle(k))))

\* C15: when the status lookup fails, the caller gets a client error (an
\* HttpException of a 4xx status) that carries the error of the lookup
\* unchanged.
C15_StatusErrorVerbatim ==
    (op = "getVideoStatus" /\ pc = "done" /\ mux[1].status = "rejected") =>
        /\ Val(ret).kind = "throw"
        /\ Val(ret).error = Val(mux[1].reason)
        /\ "status" \in DOMAIN Val(ret)
        /\ Val(ret).status \in 400..499

(***************************************************************************)
(* Properties of the batches of the batched uploadMultipleVideos, checked  *)
(* under SpecBatched.                                                      *)
(***************************************************************************)
\* The result loop of the current batch is running.
InResultLoop == op = BatchedOp /\ pc \in {"resultLoop", "awaitCleanup"}

\* The createAsset call the current batch issued as its m-th.
BatchCall(m) == createCalls[Len(createCalls) - Len(mux) + m]

\* The createAsset calls issued for the item at place p of the current batch.
AssetCallsOf(p) == {m \in DOMAIN mux : BatchCall(m).index = loopI + p}

StoredOk(p) == s3[p].status = "fulfilled"

AssetCreated(p) == \E m \in AssetCallsOf(p) : mux[m].status = "fulfilled"

AssetRefused(p) == \E m \in AssetCallsOf(p) : mux[m].status = "rejected"

\* The outcome of the item at place p of the current batch has been pushed.
Pushed(p) == Len(results) >= loopI + p

\* C16: every item whose storage upload succeeded and whose own asset was
\* created gets a success outcome carrying the asset created from its own
\* stored URL, whatever happened to the other items of its batch.
C16_OwnAssetInOutcome ==
    InResultLoop =>
        \A p \in DOMAIN s3 :
            (Pushed(p) /\ StoredOk(p) /\ AssetCreated(p)) =>
                /\ results[loopI + p].status = "success"
                /\ Val(results[loopI + p].data).uploadUrl = Val(s3[p].value).url
                /\ \E m \in AssetCallsOf(p) :
                      Val(results[loopI + p].data).id = Val(mux[m].value).id

\* C17: a compensating delete is issued for an item if and only if its
\* storage upload succeeded and its own asset creation failed; none is
\* issued for an item whose asset was created.
C17_DeleteIffOwnAssetFailed ==
    InResultLoop =>
        \A p \in DOMAIN s3 :
            /\ del[p].status # "idle" => (StoredOk(p) /\ AssetRefused(p))
            /\ (Pushed(p) /\ StoredOk(p) /\ AssetRefused(p)) => del[p].status # "idle"

\* Every storage upload, asset creation and delete issued so far has settled.
BatchSettled ==
    /\ \A k \in DOMAIN s3 : S3Settled(s3[k])
    /\ \A m \in DOMAIN mux : mux[m].status \in {"fulfilled", "rejected"}
    /\ \A k \in DOMAIN del : del[k].status # "inflight"

\* The step issues the storage uploads of a batch.
IssuesUploads == \E k \in DOMAIN s3' : s3'[k].status = "put" /\ s3'[k] \notin Range(s3)

\* C18: batches are strictly sequential: the storage uploads of a batch are
\* issued only when every storage upload, asset creation and delete of the
\* batch before has settled, and its asset creations only when, besides,
\* all its own storage uploads have settled.
C18_BatchesSequential ==
    [][ (op = BatchedOp /\ (IssuesUploads \/ Len(createCalls') > Len(createCalls)))
            => BatchSettled ]_vars

\* The second batch of a request is being uploaded after a delete of the
\* first batch has settled.
C18_Witness ==
    /\ op = BatchedOp
    /\ pc = "awaitS3"
    /\ loopI = 5
    /\ deleteCalls # EmptyBag
    /\ \E k \in DOMAIN s3 : s3[k].status = "put"

\* C19: at every moment of a request at most 5 storage uploads are in
\* flight, and at most 5 asset creations.
C19_AtMostFiveInFlight ==
    op = BatchedOp =>
        /\ Cardinality({k \in DOMAIN s3 : s3[k].status = "put"}) <= 5
        /\ Cardinality({m \in DOMAIN mux : mux[m].status = "inflight"}) <= 5

\* A request with more than 5 files has 5 uploads in flight, and later 5
\* asset creations.
C19_Witness ==
    /\ op = BatchedOp
    /\ Len(files) > 5
    /\ Cardinality({m \in DOMAIN mux : mux[m].status = "inflight"}) = 5
    /\ Cardinality(DOMAIN s3) = 5

\* C20: an accepted request with n files returns n outcomes, the k-th with
\* the file name of the k-th file; on the way the outcomes pushed so far are
\* those of the first files, in input order.
C20_OutcomePerFileInOrder ==
    op = BatchedOp =>
        /\ Len(results) <= Len(files)
        /\ \A k \in DOMAIN results : results[k].fileName = files[k].originalname
        /\ Returned =>
              /\ Val(ret).value = results
              /\ Len(Val(ret).value) = Len(files)

\* A request with 7 files has returned 7 outcomes, a failed one among them.
C20_Witness ==
    /\ op = BatchedOp
    /\ Returned
    /\ Len(files) = 7
    /\ Len(Val(ret).value) = 7
    /\ \E k \in 1..7 : Val(ret).value[k].status = "failed"
    /\ \E k \in 1..7 : Val(ret).value[k].status = "success"

(***************************************************************************)
(* Further properties of the current services, checked under Spec.         *)
(***************************************************************************)
\* C21: whenever uploadFile has failed for a file, no object of that file
\* is in the bucket.
C21_FailedUploadWroteNothing ==
    op \in SingleOps \cup BatchOps =>
        \A k \in DOMAIN s3 :
            s3[k].status = "rejected" =>
                (IsSome(s3[k].key) => Val(s3[k].key) \notin bucket)

\* C22: in the current uploadMultipleVideos no createAsset call is issued
\* before every storage upload of the request has settled: while an upload
\* is in flight no asset creation has been issued.
C22_StorageBeforeAssets ==
    op = "uploadMultipleVideos" =>
        ((createCalls # <<>> \/ \E k \in DOMAIN mux : mux[k].status # "idle") =>
            \A k \in DOMAIN s3 : S3Settled(s3[k]))

\* Asset creations of a request with several files are in flight, one of
\* its uploads having failed.
C22_Witness ==
    /\ op = "uploadMultipleVideos"
    /\ Len(files) >= 2
    /\ \E k \in DOMAIN mux : mux[k].status = "inflight"
    /\ \E k \in DOMAIN s3 : StorageFailed(k)
    /\ Len(createCalls) = Cardinality({k \in DOMAIN s3 : s3[k].status = "fulfilled"})

\* The outcomes of a call that has returned, by file index.
ReturnedOutcomes ==
    IF op \in SingleOps THEN <<Val(ret).value>> ELSE Val(ret).value

\* One of the two shapes of an UploadResult.
WellShaped(o) ==
    \/ o.status = "success" /\ IsSome(o.data) /\ o.error = None
    \/ o.status = "failed" /\ o.data = None /\ IsSome(o.error) /\ Val(o.error) # ""

\* C23: every outcome the current UploadService returns, from a single or a
\* batch call, for videos or images, is either a success with data and no
\* error or a failure with an error message and no data, and carries the
\* original name of its file.
C23_OutcomeShapes ==
    (op \in SingleOps \cup BatchOps /\ Returned) =>
        /\ DOMAIN ReturnedOutcomes = DOMAIN files
        /\ \A k \in DOMAIN ReturnedOutcomes :
              /\ WellShaped(ReturnedOutcomes[k])
              /\ ReturnedOutcomes[k].fileName = files[k].originalname

\* A batch of images has returned a success and a failure.
C23_Witness ==
    /\ op = "uploadMultipleImages"
    /\ Returned
    /\ \E a, b \in DOMAIN files :
          /\ Outcome(a).status = "success" /\ IsSome(Outcome(a).data)
          /\ Outcome(b).status = "failed" /\ IsSome(Outcome(b).error)

(***************************************************************************)
(* Properties of S3Service.validateFile at the size limits, checked under  *)
(* SpecBoundary.                                                           *)
(***************************************************************************)
\* The ceiling of a namespace, in bytes.
CeilingOf(fileType) == IF fileType = "video" THEN 100 * 1024 * 1024 ELSE 5 * 1024 * 1024

TypeAllowed(file, fileType) ==
    IF fileType = "video"
    THEN file.mimetype \in {"video/mp4", "video/quicktime", "video/x-msvideo",
                            "video/x-matroska", "video/webm"}
    ELSE file.mimetype \in {"image/jpeg", "image/png", "image/gif", "image/webp"}

SizeMessage(fileType) ==
    IF fileType = "video"
    THEN "File size exceeds limit. Maximum size for video is 100MB"
    ELSE "File size exceeds limit. Maximum size for image is 5MB"

\* C24: validateFile rejects a file of an allowed type for its size exactly
\* when the size is strictly greater than the ceiling of the namespace of
\* the call, 100*1024*1024 bytes for video and 5*1024*1024 for image: a file
\* of the ceiling is accepted and put, one byte more is rejected with the
\* size message of that namespace.
C24_SizeCeilingStrict ==
    /\ \A f \in BoundaryFiles : \A ft \in {"video", "image"} :
          TypeAllowed(f, ft) =>
              (ValidateFile(f, ft) = IF f.size > CeilingOf(ft)
                                     THEN Some(SizeMessage(ft)) ELSE None)
    /\ (op \in SingleOps /\ TypeAllowed(files[1], FileTypeOf(op))) =>
          /\ files[1].size > CeilingOf(FileTypeOf(op)) =>
                /\ s3[1].status = "rejected"
                /\ s3[1].key = None
                /\ s3[1].reason = Some(SizeMessage(FileTypeOf(op)))
          /\ files[1].size <= CeilingOf(FileTypeOf(op)) =>
                /\ IsSome(s3[1].key)
                /\ s3[1].status = "rejected" =>
                      Val(s3[1].reason) # SizeMessage(FileTypeOf(op))

\* An image of exactly 5MB, or a video of exactly 100MB, has been stored.
C24_Witness ==
    /\ pc = "done"
    /\ Returned
    /\ Val(ret).value.status = "success"
    /\ \/ op = "uploadImage" /\ files[1].size = 5 * 1024 * 1024
       \/ op = "uploadVideo" /\ files[1].size = 100 * 1024 * 1024

(***************************************************************************)
(* Properties of the first UploadController in front of the batched        *)
(* uploadMultipleVideos, checked under SpecFirstController.                *)
(***************************************************************************)
\* C25: a batch request whose body has no titles is accepted, and the title
\* of every item resolves to its original file name.
C25_NoTitlesAccepted ==
    (op = BatchedOp /\ body.titles = None /\ Len(files) <= 10) =>
        /\ IsSome(ret) => Val(ret).kind = "return"
        /\ \A j \in DOMAIN createCalls :
              createCalls[j].title = files[createCalls[j].index].originalname
        /\ Returned => Len(Val(ret).value) = Len(files)

(***************************************************************************)
(* Further properties of the current uploadMultipleVideos, checked under   *)
(* Spec.                                                                   *)
(***************************************************************************)
\* The outcome of item k as its own file, title, storage result and asset
\* result determine it.
OwnOutcome(k) ==
    IF s3[k].status = "rejected"
    THEN [status |-> "failed", data |-> None, error |-> s3[k].reason,
          fileName |-> files[k].originalname]
    ELSE IF mux[k].status = "rejected"
    THEN [status |-> "failed", data |-> None,
          error |-> Some("Mux processing failed: " \o Val(mux[k].reason)),
          fileName |-> files[k].originalname]
    ELSE [status |-> "success",
          data |-> Some([id |-> Val(mux[k].value).id,
                         title |-> ExpectedTitle(k),
                         status |-> Val(mux[k].value).status,
                         duration |-> Val(mux[k].value).duration,
                         aspectRatio |-> Val(mux[k].value).aspectRatio,
                         playbackId |-> Val(mux[k].value).playbackId,
                         createdAt |-> Val(mux[k].value).createdAt,
                         uploadId |-> Val(mux[k].value).uploadId,
                         s3Url |-> Val(s3[k].value).url,
                         url |-> Val(s3[k].value).url,
                         contentType |-> Val(s3[k].value).contentType,
                         size |-> Val(s3[k].value).size]),
          error |-> None, fileName |-> files[k].originalname]

\* C26: outcome k of the current uploadMultipleVideos is determined by item
\* k's own file, title, storage result and asset-creation result: it is the
\* same whatever the results and the completion order of the other items'
\* calls, its own delete included.
C26_OutcomeOfOwnResults ==
    (op = "uploadMultipleVideos" /\ Returned) =>
        \A k \in DOMAIN files : Outcome(k) = OwnOutcome(k)

\* A batch has returned different outcomes for two items whose calls
\* completed out of input order.
C26_Witness ==
    /\ op = "uploadMultipleVideos"
    /\ Returned
    /\ OutOfOrder(settleOrder)
    /\ \E a, b \in DOMAIN files :
          /\ a < b
          /\ Outcome(a).status = "success"
          /\ AssetFailed(b)
          /\ del[b].status = "rejected"

\* Some deleteFile call is in flight.
DeleteInFlight == \E k \in DOMAIN del : del[k].status = "inflight"

\* Position of item k in the order in which the callbacks returned.
ReturnedAt(k) == CHOOSE p \in DOMAIN settleOrder : settleOrder[p] = k

\* C27: the current uploadMultipleVideos has not completed while a deleteFile
\* call it issued is still in flight: every compensating delete has fulfilled
\* or rejected before the result is returned.
C27_DeletesSettledBeforeReturn ==
    (op = "uploadMultipleVideos" /\ pc = "done") => ~DeleteInFlight

\* A batch has returned in which the delete of item k was issued and settled
\* while the createAsset call of another item j was still in flight: the
\* callback of k returned before that of j.
C27_Witness ==
    /\ op = "uploadMultipleVideos"
    /\ Returned
    /\ \E k, j \in DOMAIN files :
          /\ k # j
          /\ del[k].status \notin {"idle", "inflight"}
          /\ mux[j].status \notin {"idle", "inflight"}
          /\ ReturnedAt(k) < ReturnedAt(j)

(***************************************************************************)
(* Both forms of uploadMultipleVideos under fair scheduling: every call    *)
(* issued to the storage or to the asset service eventually settles, and   *)
(* a continuation that can run does run.                                   *)
(***************************************************************************)
\* The most files in a call of the current uploadMultipleVideos here.
MaxFairFiles == 2

\* The most files in a call of the batched uploadMultipleVideos here: two
\* batches.
MaxFairBatchFiles == 6

FairUploadMultipleVideos ==
    /\ pc = "idle"
    /\ UNCHANGED body
    /\ \E fs \in {f \in FileLists : Len(f) <= MaxFairFiles} :
       \E ts \in TitleLists(Len(fs)) :
          IF Len(fs) = 0
          THEN ReturnEmpty("uploadMultipleVideos", Some(fs), ts)
          ELSE Call("uploadMultipleVideos", fs, ts, None)

FairBatchedUploadMultipleVideos ==
    /\ pc = "idle"
    /\ UNCHANGED body
    /\ \E n \in 0..MaxFairBatchFiles : \E ts \in TitleLists(n) :
          BatchedCall(BatchedFiles(n), ts)

NextFair ==
    \/ FairUploadMultipleVideos
    \/ FairBatchedUploadMultipleVideos
    \/ PutSettles
    \/ HeadSettles
    \/ CreateAssetSettles
    \/ DeleteSettles
    \/ BatchLoop
    \/ BatchedPutSettles
    \/ BatchedAfterStorage
    \/ BatchedCreateAssetSettles
    \/ BatchedAfterMux
    \/ ResultLoop
    \/ BatchedDeleteSettles

\* The settling of the external calls, and the event loop running the
\* continuations of the settled promises.
Fairness ==
    /\ WF_vars(PutSettles)
    /\ WF_vars(HeadSettles)
    /\ WF_vars(CreateAssetSettles)
    /\ WF_vars(DeleteSettles)
    /\ WF_vars(BatchLoop)
    /\ WF_vars(BatchedPutSettles)
    /\ WF_vars(BatchedAfterStorage)
    /\ WF_vars(BatchedCreateAssetSettles)
    /\ WF_vars(BatchedAfterMux)
    /\ WF_vars(ResultLoop)
    /\ WF_vars(BatchedDeleteSettles)

SpecFair == Init /\ [][NextFair]_vars /\ Fairness

\* The call has completed, with a result list or with a whole-request error.
Completed == pc = "done" /\ IsSome(ret) /\ Val(ret).kind \in {"return", "throw"}

\* C28: when every storage put, head and delete and every createAsset call
\* eventually settles, every call of uploadMultipleVideos, current or
\* batched, eventually completes with a result list or a whole-request
\* error: no wait is on a call that was not issued, and the batch loop
\* advances.
C28_CallsComplete ==
    (op \in {"uploadMultipleVideos", BatchedOp}) ~> Completed

\* A batched call of more than one batch, some of whose external calls
\* failed, has returned its results.
C28_Witness ==
    /\ op = BatchedOp
    /\ Returned
    /\ Len(files) > MAX_CONCURRENT_UPLOADS
    /\ faults >= 1
    /\ Len(Val(ret).value) = Len(files)

(***************************************************************************)
(* Properties of the batch methods called without files, checked under     *)
(* Spec.                                                                   *)
(***************************************************************************)
\* The method was handed no file list, or an empty one.
AbsentOrEmpty == filesArg = None \/ filesArg = Some(<<>>)

\* C29: uploadMultipleVideos and uploadMultipleImages called with an absent
\* or an empty file list return the empty outcome list, and no storage,
\* asset-creation or delete call is issued: nothing is stored, deleted or
\* logged.
C29_NoFilesNoCalls ==
    (op \in BatchOps /\ AbsentOrEmpty) =>
        /\ Returned
        /\ Val(ret).value = <<>>
        /\ s3 = <<>> /\ mux = <<>> /\ del = <<>>
        /\ createCalls = <<>>
        /\ deleteCalls = EmptyBag
        /\ bucket = {}
        /\ log = {}

\* uploadMultipleImages was called without a file list and has returned.
C29_Witness ==
    /\ op = "uploadMultipleImages"
    /\ filesArg = None
    /\ pc = "done"
    /\ IsSome(ret)

(***************************************************************************)
(* Properties of the title sanitization, checked under SpecController.     *)
(***************************************************************************)
\* chars neither starts nor ends with whitespace.
NoOuterWhiteSpace(chars) ==
    chars # <<>> => ~IsSpace(chars[1]) /\ ~IsSpace(chars[Len(chars)])

\* C30: the sanitization of the batch endpoint is idempotent: sanitizing
\* the title the service was handed gives that title again, and that title
\* has no leading and no trailing whitespace.
C30_SanitizeIdempotent ==
    (op = "uploadMultipleVideos" /\ IsSome(body.titles)) =>
        \A k \in DOMAIN Val(body.titles) :
            LET out == SanitizeTitle(Val(body.titles)[k]) IN
            /\ Val(titles)[k] = Str(out)
            /\ SanitizeTitle(out) = out
            /\ NoOuterWhiteSpace(out)

====
